---- MODULE Spec2Model ----
(***************************************************************************)
(* Model of the load-balancer provisioning sample (src/example.go).       *)
(* The program is one sequential workflow (init, main, createVM) that     *)
(* issues calls to a remote resource-management service and waits for     *)
(* their results.  The remote service is the environment: it answers      *)
(* every issued call with success (and a payload carrying the identifiers *)
(* it assigned) or with failure.                                          *)
(***************************************************************************)
EXTENDS Integers, Sequences, FiniteSets, TLC

(* ---- bounds of the model ---- *)
NumIDs == 3        \* numbers the service may start numbering load balancer children from
MaxPools == 2      \* backend pools in a load balancer returned by the service
MaxNat == 3        \* NAT rules in a load balancer returned by the service

(* ---- package-level names, example.go:18-29 ---- *)
groupName == "your-azure-sample-group"
westus == "westus"
vNetName == "vNet"
subnetName == "subnet"
ipName == "pip"
frontEndIPConfigName == "fip"
backEndAddressPoolName == "backEndPool"
probeName == "probe"
loadBalancerName == "lb"
storageAccountName == "golangrocksonazure"
vmName1 == "Web1"
vmName2 == "Web2"

\* values AZURE_SUBSCRIPTION_ID may hold; "" is the unset variable
Subscriptions == {"sub123", "sub456"}

(* ---- remote calls, named after the client method that issues them ---- *)
cGroup == "groupClient.CreateOrUpdate"
cStorage == "accountClient.Create"
cPIP == "pipClient.CreateOrUpdate"
cLB == "lbClient.CreateOrUpdate"
cVNet == "vNetClient.CreateOrUpdate"
cSubnet == "subnetClient.CreateOrUpdate"
cGetSubnet == "subnetClient.Get"
cAvailSet == "availSetClient.CreateOrUpdate"
cNIC1 == "interfaceClient.CreateOrUpdate nic-Web1"
cVM1 == "vmClient.CreateOrUpdate Web1"
cNIC2 == "interfaceClient.CreateOrUpdate nic-Web2"
cVM2 == "vmClient.CreateOrUpdate Web2"
cList == "groupClient.ListResources"
cDelete == "groupClient.Delete"

Calls == {cGroup, cStorage, cPIP, cLB, cVNet, cSubnet, cGetSubnet, cAvailSet,
          cNIC1, cVM1, cNIC2, cVM2, cList, cDelete}

\* nicName := fmt.Sprintf("nic-%s", vmName) selects the interface call
cNIC(vmName) == IF vmName = vmName1 THEN cNIC1 ELSE cNIC2
cVM(vmName) == IF vmName = vmName1 THEN cVM1 ELSE cVM2
nicNameOf(vmName) == IF vmName = vmName1 THEN "nic-Web1" ELSE "nic-Web2"

(* ---- identifiers ---- *)
\* a nil *string
NilID == [type |-> "nil", name |-> "", n |-> 0]
\* identifier the service gives a named top-level resource
ResourceID(type, name) == [type |-> type, name |-> name, n |-> 0]
\* identifier the service gives a child of the load balancer
ChildID(type, i) == [type |-> type, name |-> loadBalancerName, n |-> i]

NoValue == [none |-> TRUE]

VARIABLES
    pc,             \* position of the workflow
    subscriptionID, \* package variable, set by init
    trace,          \* what the workflow did: <<"issue", c>>, <<"await", c>>, <<"scan">>
    status,         \* per call: "unissued", "pending", "ok", "fail"
    req,            \* per call: the parameters sent
    resp,           \* per call: the payload the service delivered
    pip, lb, subnet, availSet,  \* locals of main
    err,            \* main's err after a createVM call
    frame,          \* arguments of the running createVM call
    nic,            \* createVM's local nic
    input,          \* TRUE once fmt.Scanln returned
    failMessage,    \* message printed by onErrorFail
    exitStatus      \* {} while running, {0} or {1} once exited

vars == <<pc, subscriptionID, trace, status, req, resp, pip, lb, subnet,
          availSet, err, frame, nic, input, failMessage, exitStatus>>

(* ---- pure builders ---- *)

\* buildID: the path segments the format string joins
buildID(sub, subType, subTypeName) ==
    <<"subscriptions", sub, "resourceGroups", groupName, "providers",
      "Microsoft.Network", "loadBalancers", loadBalancerName, subType, subTypeName>>

buildNATrule(natRuleName, sub, frontEndPort) ==
    [Name |-> natRuleName,
     Protocol |-> "Tcp",
     FrontendPort |-> frontEndPort,
     BackendPort |-> 22,
     EnableFloatingIP |-> FALSE,
     IdleTimeoutInMinutes |-> 4,
     FrontendIPConfiguration |->
         buildID(sub, "frontendIPConfigurations", frontEndIPConfigName)]

\* faulty variant: the NAT-rule index is ignored, rule 0 is always used
buildNICparamsFirstRule(subnetID, lbObj, natRule) ==
    [Location |-> westus,
     IPConfigurations |->
        << [Name |-> "pipConfig",
            Subnet |-> subnetID,
            LoadBalancerBackendAddressPools |-> << lbObj.BackendAddressPools[1].ID >>,
            LoadBalancerInboundNatRules |-> << lbObj.InboundNatRules[1].ID >>] >>]

\* Go indexes from 0, sequences from 1
buildNICparams(subnetID, lbObj, natRule) ==
    [Location |-> westus,
     IPConfigurations |->
        << [Name |-> "pipConfig",
            Subnet |-> subnetID,
            LoadBalancerBackendAddressPools |-> << lbObj.BackendAddressPools[0 + 1].ID >>,
            LoadBalancerInboundNatRules |-> << lbObj.InboundNatRules[natRule + 1].ID >>] >>]

buildVhdURI(account, vmName) ==
    <<"https://", account, ".blob.core.windows.net/golangcontainer/", vmName, ".vhd">>

buildVMparams(vmName, nicID, availSetID) ==
    [Location |-> westus,
     OsProfile |-> [ComputerName |-> vmName, AdminUsername |-> "notAdmin",
                    AdminPassword |-> "Pa$$w0rd1975"],
     VMSize |-> "Standard_DS1",
     ImageReference |-> [Publisher |-> "Canonical", Offer |-> "UbuntuServer",
                         Sku |-> "16.04.0-LTS", Version |-> "latest"],
     OsDisk |-> [Name |-> "osDisk", CreateOption |-> "FromImage",
                 Vhd |-> buildVhdURI(storageAccountName, vmName)],
     NetworkInterfaces |-> << [ID |-> nicID, Primary |-> TRUE] >>,
     AvailabilitySet |-> availSetID]

\* the load balancer definition assembled in main
lbParams(sub, pipObj) ==
    [Location |-> westus,
     FrontendIPConfigurations |->
        << [Name |-> frontEndIPConfigName, PublicIPAddress |-> pipObj] >>,
     BackendAddressPools |-> << [Name |-> backEndAddressPoolName] >>,
     Probes |-> << [Name |-> probeName, Port |-> 80] >>,
     LoadBalancingRules |->
        << [Name |-> "lbRule", FrontendPort |-> 80, BackendPort |-> 80,
            FrontendIPConfiguration |->
                buildID(sub, "frontendIPConfigurations", frontEndIPConfigName),
            BackendAddressPool |->
                buildID(sub, "backendAddressPools", backEndAddressPoolName),
            Probe |-> buildID(sub, "probes", probeName)] >>,
     InboundNatRules |-> << buildNATrule("natRule1", sub, 21),
                            buildNATrule("natRule2", sub, 23) >>]

(* ---- the remote service ---- *)

\* a created load balancer: at least the children asked for; the service
\* numbers the children of one kind consecutively from a number it chooses,
\* so each child has its own identifier
LBPayloads(r) ==
    {[ID |-> ResourceID("loadBalancers", loadBalancerName),
      BackendAddressPools |->
          [i \in 1..np |-> [ID |-> ChildID("backendAddressPools", k + i)]],
      InboundNatRules |->
          [i \in 1..nn |->
              [ID |-> ChildID("inboundNatRules", k + i),
               FrontendPort |-> IF i <= Len(r.InboundNatRules)
                                THEN r.InboundNatRules[i].FrontendPort ELSE 0]]] :
        k \in 1..NumIDs,
        np \in Len(r.BackendAddressPools)..MaxPools,
        nn \in Len(r.InboundNatRules)..MaxNat}

Payloads(c) ==
    IF c = cLB THEN LBPayloads(req[c])
    ELSE IF c = cPIP
        THEN {[ID |-> ResourceID("publicIPAddresses", ipName), IPAddress |-> "address"]}
    ELSE IF c = cGetSubnet THEN {[ID |-> ResourceID("subnets", subnetName)]}
    ELSE IF c = cAvailSet THEN {[ID |-> ResourceID("availabilitySets", "availSet")]}
    ELSE IF c = cNIC1 THEN {[ID |-> ResourceID("networkInterfaces", nicNameOf(vmName1))]}
    ELSE IF c = cNIC2 THEN {[ID |-> ResourceID("networkInterfaces", nicNameOf(vmName2))]}
    ELSE {[ID |-> ResourceID(c, "")]}

\* the service answers a pending call of the live process
Respond(c) ==
    /\ exitStatus = {}
    /\ status[c] = "pending"
    /\ \/ \E p \in Payloads(c) :
            /\ status' = [status EXCEPT ![c] = "ok"]
            /\ resp' = [resp EXCEPT ![c] = p]
       \/ /\ status' = [status EXCEPT ![c] = "fail"]
          /\ UNCHANGED resp
    /\ UNCHANGED <<pc, subscriptionID, trace, req, pip, lb, subnet, availSet,
                   err, frame, nic, input, failMessage, exitStatus>>

(* ---- helpers of the workflow ---- *)

\* faulty variant: the error is ignored and the workflow goes on
onErrorContinue(e, message, next) ==
    /\ pc' = next
    /\ UNCHANGED <<failMessage, exitStatus>>

onErrorFail(e, message, next) ==
    IF e # "nil"
    THEN /\ failMessage' = message
         /\ exitStatus' = {1}
         /\ pc' = "exited"
    ELSE /\ pc' = next
         /\ UNCHANGED <<failMessage, exitStatus>>

\* the error value a delivered result carries
ErrOf(c) == IF status[c] = "fail" THEN "error" ELSE "nil"
Delivered(c) == status[c] \in {"ok", "fail"}

\* sending a request
Send(c, r) ==
    /\ status[c] = "unissued"
    /\ trace' = Append(trace, <<"issue", c>>)
    /\ status' = [status EXCEPT ![c] = "pending"]
    /\ req' = [req EXCEPT ![c] = r]

\* receiving the result of a call
Receive(c) ==
    /\ Delivered(c)
    /\ trace' = Append(trace, <<"await", c>>)

Init ==
    /\ pc = "init"
    /\ subscriptionID = ""
    /\ trace = << >>
    /\ status = [c \in Calls |-> "unissued"]
    /\ req = [c \in Calls |-> NoValue]
    /\ resp = [c \in Calls |-> NoValue]
    /\ pip = [ID |-> NilID, IPAddress |-> ""]
    /\ lb = NoValue
    /\ subnet = [ID |-> NilID]
    /\ availSet = [ID |-> NilID]
    /\ err = "nil"
    /\ frame = NoValue
    /\ nic = NoValue
    /\ input = FALSE
    /\ failMessage = ""
    /\ exitStatus = {}


(* ---- init(), example.go:47-53 ---- *)

\* utils.GetAuthorizer succeeds or fails
InitGetAuthorizer ==
    /\ pc = "init"
    /\ \E e \in {"nil", "error"} : onErrorFail(e, "GetAuthorizer failed", "init_env")
    /\ UNCHANGED <<subscriptionID, trace, status, req, resp, pip, lb, subnet,
                   availSet, err, frame, nic, input>>

\* utils.GetEnvVarOrExit exits when the variable is unset; else createClients
InitSubscription ==
    /\ pc = "init_env"
    /\ \E s \in Subscriptions \cup {""} :
          IF s = ""
          THEN /\ exitStatus' = {1}
               /\ pc' = "exited"
               /\ failMessage' = "Missing environment variable"
               /\ UNCHANGED subscriptionID
          ELSE /\ subscriptionID' = s
               /\ pc' = "create_group"
               /\ UNCHANGED <<exitStatus, failMessage>>
    /\ UNCHANGED <<trace, status, req, resp, pip, lb, subnet, availSet, err,
                   frame, nic, input>>

(* ---- main(), example.go:55-215 ---- *)

CreateResourceGroup ==
    /\ pc = "create_group"
    /\ Send(cGroup, [Location |-> westus])
    /\ pc' = "check_group"
    /\ UNCHANGED <<subscriptionID, resp, pip, lb, subnet, availSet, err, frame,
                   nic, input, failMessage, exitStatus>>

CheckResourceGroup ==
    /\ pc = "check_group"
    /\ Receive(cGroup)
    /\ onErrorFail(ErrOf(cGroup), "CreateOrUpdate failed", "create_storage")
    /\ UNCHANGED <<subscriptionID, status, req, resp, pip, lb, subnet, availSet,
                   err, frame, nic, input>>

\* faulty variant: the storage account creation is never sent
CreateStorageAccountNotSent ==
    /\ pc = "create_storage"
    /\ pc' = "create_pip"
    /\ UNCHANGED <<subscriptionID, trace, status, req, resp, pip, lb, subnet,
                   availSet, err, frame, nic, input, failMessage, exitStatus>>

\* the error channel is kept in errStorageAccount and read at line 182
CreateStorageAccount ==
    /\ pc = "create_storage"
    /\ Send(cStorage, [Name |-> storageAccountName, Sku |-> "Standard_LRS",
                       Kind |-> "Storage", Location |-> westus])
    /\ pc' = "create_pip"
    /\ UNCHANGED <<subscriptionID, resp, pip, lb, subnet, availSet, err, frame,
                   nic, input, failMessage, exitStatus>>

\* faulty variant: the public IP result is not waited for
CreatePublicIPNoWait ==
    /\ pc = "create_pip"
    /\ Send(cPIP, [Location |-> westus, PublicIPAllocationMethod |-> "Static",
                   DomainNameLabel |-> "domain-name"])
    /\ pc' = "create_lb"
    /\ UNCHANGED <<subscriptionID, resp, pip, lb, subnet, availSet, err, frame,
                   nic, input, failMessage, exitStatus>>

CreatePublicIP ==
    /\ pc = "create_pip"
    /\ Send(cPIP, [Location |-> westus, PublicIPAllocationMethod |-> "Static",
                   DomainNameLabel |-> "domain-name"])
    /\ pc' = "await_pip"
    /\ UNCHANGED <<subscriptionID, resp, pip, lb, subnet, availSet, err, frame,
                   nic, input, failMessage, exitStatus>>

\* onErrorFail(<-errPIP, ...); pip = <-pipChan
AwaitPublicIP ==
    /\ pc = "await_pip"
    /\ Receive(cPIP)
    /\ onErrorFail(ErrOf(cPIP), "CreateOrUpdate Public IP failed", "create_lb")
    /\ pip' = IF status[cPIP] = "ok" THEN resp[cPIP] ELSE pip
    /\ UNCHANGED <<subscriptionID, status, req, resp, lb, subnet, availSet, err,
                   frame, nic, input>>

CreateLoadBalancer ==
    /\ pc = "create_lb"
    /\ Send(cLB, lbParams(subscriptionID, pip))
    /\ pc' = "await_lb"
    /\ UNCHANGED <<subscriptionID, resp, pip, lb, subnet, availSet, err, frame,
                   nic, input, failMessage, exitStatus>>

\* onErrorFail(<-errLB, ...); lb = <-lbChan
AwaitLoadBalancer ==
    /\ pc = "await_lb"
    /\ Receive(cLB)
    /\ onErrorFail(ErrOf(cLB), "CreateOrUpdate Load Balancer failed", "create_vnet")
    /\ lb' = IF status[cLB] = "ok" THEN resp[cLB] ELSE lb
    /\ UNCHANGED <<subscriptionID, status, req, resp, pip, subnet, availSet, err,
                   frame, nic, input>>

CreateVirtualNetwork ==
    /\ pc = "create_vnet"
    /\ Send(cVNet, [Location |-> westus, AddressPrefixes |-> <<"10.0.0.0/16">>])
    /\ pc' = "await_vnet"
    /\ UNCHANGED <<subscriptionID, resp, pip, lb, subnet, availSet, err, frame,
                   nic, input, failMessage, exitStatus>>

AwaitVirtualNetwork ==
    /\ pc = "await_vnet"
    /\ Receive(cVNet)
    /\ onErrorFail(ErrOf(cVNet), "CreateOrUpdate Virtual Network failed", "create_subnet")
    /\ UNCHANGED <<subscriptionID, status, req, resp, pip, lb, subnet, availSet,
                   err, frame, nic, input>>

CreateSubnet ==
    /\ pc = "create_subnet"
    /\ Send(cSubnet, [VirtualNetwork |-> vNetName, AddressPrefix |-> "10.0.0.0/24"])
    /\ pc' = "await_subnet"
    /\ UNCHANGED <<subscriptionID, resp, pip, lb, subnet, availSet, err, frame,
                   nic, input, failMessage, exitStatus>>

\* faulty variant: the subnet is not fetched again after its creation
AwaitSubnetSkipGet ==
    /\ pc = "await_subnet"
    /\ Receive(cSubnet)
    /\ onErrorFail(ErrOf(cSubnet), "CreateOrUpdate Subnet failed", "create_availset")
    /\ UNCHANGED <<subscriptionID, status, req, resp, pip, lb, subnet, availSet,
                   err, frame, nic, input>>

AwaitSubnet ==
    /\ pc = "await_subnet"
    /\ Receive(cSubnet)
    /\ onErrorFail(ErrOf(cSubnet), "CreateOrUpdate Subnet failed", "get_subnet")
    /\ UNCHANGED <<subscriptionID, status, req, resp, pip, lb, subnet, availSet,
                   err, frame, nic, input>>

GetSubnet ==
    /\ pc = "get_subnet"
    /\ Send(cGetSubnet, [VirtualNetwork |-> vNetName, Name |-> subnetName])
    /\ pc' = "check_get_subnet"
    /\ UNCHANGED <<subscriptionID, resp, pip, lb, subnet, availSet, err, frame,
                   nic, input, failMessage, exitStatus>>

\* subnet, err = subnetClient.Get(...): on failure subnet is the zero value
CheckGetSubnet ==
    /\ pc = "check_get_subnet"
    /\ Receive(cGetSubnet)
    /\ onErrorFail(ErrOf(cGetSubnet), "Get Subnet failed", "create_availset")
    /\ subnet' = IF status[cGetSubnet] = "ok" THEN resp[cGetSubnet] ELSE [ID |-> NilID]
    /\ UNCHANGED <<subscriptionID, status, req, resp, pip, lb, availSet, err,
                   frame, nic, input>>

CreateAvailabilitySet ==
    /\ pc = "create_availset"
    /\ Send(cAvailSet, [Name |-> "availSet", Location |-> westus])
    /\ pc' = "check_availset"
    /\ UNCHANGED <<subscriptionID, resp, pip, lb, subnet, availSet, err, frame,
                   nic, input, failMessage, exitStatus>>

CheckAvailabilitySet ==
    /\ pc = "check_availset"
    /\ Receive(cAvailSet)
    /\ onErrorFail(ErrOf(cAvailSet), "CreateOrUpdate failed", "await_storage")
    /\ availSet' = IF status[cAvailSet] = "ok" THEN resp[cAvailSet] ELSE [ID |-> NilID]
    /\ UNCHANGED <<subscriptionID, status, req, resp, pip, lb, subnet, err,
                   frame, nic, input>>

\* onErrorFail(<-errStorageAccount, ...)
AwaitStorageAccount ==
    /\ pc = "await_storage"
    /\ Receive(cStorage)
    /\ onErrorFail(ErrOf(cStorage), "Create Storage Account failed", "call_createVM1")
    /\ UNCHANGED <<subscriptionID, status, req, resp, pip, lb, subnet, availSet,
                   err, frame, nic, input>>


\* err = createVM(vmName1, subnet.ID, availSet.ID, pip.IPAddress, lb, 0)
CallCreateVM1 ==
    /\ pc = "call_createVM1"
    /\ frame' = [vmName |-> vmName1, subnetID |-> subnet.ID,
                 availSetID |-> availSet.ID, ipAddress |-> pip.IPAddress,
                 lb |-> lb, natRule |-> 0, ret |-> "check_createVM1"]
    /\ pc' = "createVM_nic"
    /\ UNCHANGED <<subscriptionID, trace, status, req, resp, pip, lb, subnet,
                   availSet, err, nic, input, failMessage, exitStatus>>

CheckCreateVM1 ==
    /\ pc = "check_createVM1"
    /\ onErrorFail(err, "createVM failed", "call_createVM2")
    /\ UNCHANGED <<subscriptionID, trace, status, req, resp, pip, lb, subnet,
                   availSet, err, frame, nic, input>>

\* err = createVM(vmName2, subnet.ID, availSet.ID, pip.IPAddress, lb, 1)
CallCreateVM2 ==
    /\ pc = "call_createVM2"
    /\ frame' = [vmName |-> vmName2, subnetID |-> subnet.ID,
                 availSetID |-> availSet.ID, ipAddress |-> pip.IPAddress,
                 lb |-> lb, natRule |-> 1, ret |-> "check_createVM2"]
    /\ pc' = "createVM_nic"
    /\ UNCHANGED <<subscriptionID, trace, status, req, resp, pip, lb, subnet,
                   availSet, err, nic, input, failMessage, exitStatus>>

CheckCreateVM2 ==
    /\ pc = "check_createVM2"
    /\ onErrorFail(err, "createVM failed", "list")
    /\ UNCHANGED <<subscriptionID, trace, status, req, resp, pip, lb, subnet,
                   availSet, err, frame, nic, input>>

ListResources ==
    /\ pc = "list"
    /\ Send(cList, [Group |-> groupName])
    /\ pc' = "check_list"
    /\ UNCHANGED <<subscriptionID, resp, pip, lb, subnet, availSet, err, frame,
                   nic, input, failMessage, exitStatus>>

\* faulty variant: the workflow does not stop for the user before the teardown
CheckListNoPrompt ==
    /\ pc = "check_list"
    /\ Receive(cList)
    /\ onErrorFail(ErrOf(cList), "ListResources failed", "delete")
    /\ UNCHANGED <<subscriptionID, status, req, resp, pip, lb, subnet, availSet,
                   err, frame, nic, input>>

CheckList ==
    /\ pc = "check_list"
    /\ Receive(cList)
    /\ onErrorFail(ErrOf(cList), "ListResources failed", "scan")
    /\ UNCHANGED <<subscriptionID, status, req, resp, pip, lb, subnet, availSet,
                   err, frame, nic, input>>

\* fmt.Scanln(&input) returns when the user enters a line
ReadInput ==
    /\ pc = "scan"
    /\ input' = TRUE
    /\ trace' = Append(trace, <<"scan", "stdin">>)
    /\ pc' = "delete"
    /\ UNCHANGED <<subscriptionID, status, req, resp, pip, lb, subnet, availSet,
                   err, frame, nic, failMessage, exitStatus>>

DeleteResourceGroup ==
    /\ pc = "delete"
    /\ Send(cDelete, [Group |-> groupName])
    /\ pc' = "await_delete"
    /\ UNCHANGED <<subscriptionID, resp, pip, lb, subnet, availSet, err, frame,
                   nic, input, failMessage, exitStatus>>

\* faulty variant: the result of the delete is not checked
AwaitDeleteUnchecked ==
    /\ pc = "await_delete"
    /\ Receive(cDelete)
    /\ pc' = "return_main"
    /\ UNCHANGED <<subscriptionID, status, req, resp, pip, lb, subnet, availSet,
                   err, frame, nic, input, failMessage, exitStatus>>

\* onErrorFail(<-errGroup, ...)
AwaitDelete ==
    /\ pc = "await_delete"
    /\ Receive(cDelete)
    /\ onErrorFail(ErrOf(cDelete), "Delete resource group failed", "return_main")
    /\ UNCHANGED <<subscriptionID, status, req, resp, pip, lb, subnet, availSet,
                   err, frame, nic, input>>

\* main returns: the process ends with status 0
MainReturn ==
    /\ pc = "return_main"
    /\ exitStatus' = {0}
    /\ pc' = "exited"
    /\ UNCHANGED <<subscriptionID, trace, status, req, resp, pip, lb, subnet,
                   availSet, err, frame, nic, input, failMessage>>

(* ---- createVM(), example.go:315-347 ---- *)

CreateVMSendNIC ==
    /\ pc = "createVM_nic"
    /\ LET n == buildNICparams(frame.subnetID, frame.lb, frame.natRule)
       IN  /\ nic' = n
           /\ Send(cNIC(frame.vmName), n)
    /\ pc' = "createVM_await_nic"
    /\ UNCHANGED <<subscriptionID, resp, pip, lb, subnet, availSet, err, frame,
                   input, failMessage, exitStatus>>

\* faulty variant: the NIC error is not checked
CreateVMAwaitNICUnchecked ==
    /\ pc = "createVM_await_nic"
    /\ Receive(cNIC(frame.vmName))
    /\ nic' = IF status[cNIC(frame.vmName)] = "ok" THEN resp[cNIC(frame.vmName)]
              ELSE [ID |-> NilID]
    /\ pc' = "createVM_vm"
    /\ UNCHANGED <<subscriptionID, status, req, resp, pip, lb, subnet, availSet,
                   err, frame, input, failMessage, exitStatus>>

\* err := <-errNIC; on error return it, else nic = <-nicChan
CreateVMAwaitNIC ==
    /\ pc = "createVM_await_nic"
    /\ Receive(cNIC(frame.vmName))
    /\ IF ErrOf(cNIC(frame.vmName)) # "nil"
       THEN /\ err' = ErrOf(cNIC(frame.vmName))
            /\ pc' = frame.ret
            /\ UNCHANGED nic
       ELSE /\ nic' = resp[cNIC(frame.vmName)]
            /\ pc' = "createVM_vm"
            /\ UNCHANGED err
    /\ UNCHANGED <<subscriptionID, status, req, resp, pip, lb, subnet, availSet,
                   frame, input, failMessage, exitStatus>>

CreateVMSendVM ==
    /\ pc = "createVM_vm"
    /\ Send(cVM(frame.vmName), buildVMparams(frame.vmName, nic.ID, frame.availSetID))
    /\ pc' = "createVM_await_vm"
    /\ UNCHANGED <<subscriptionID, resp, pip, lb, subnet, availSet, err, frame,
                   nic, input, failMessage, exitStatus>>

\* err = <-errVM; return err, or nil after printing the ssh line
CreateVMAwaitVM ==
    /\ pc = "createVM_await_vm"
    /\ Receive(cVM(frame.vmName))
    /\ err' = ErrOf(cVM(frame.vmName))
    /\ pc' = frame.ret
    /\ UNCHANGED <<subscriptionID, status, req, resp, pip, lb, subnet, availSet,
                   frame, nic, input, failMessage, exitStatus>>

(* ---- the system ---- *)

Workflow ==
    \/ InitGetAuthorizer \/ InitSubscription
    \/ CreateResourceGroup \/ CheckResourceGroup
    \/ CreateStorageAccount
    \/ CreatePublicIP \/ AwaitPublicIP
    \/ CreateLoadBalancer \/ AwaitLoadBalancer
    \/ CreateVirtualNetwork \/ AwaitVirtualNetwork
    \/ CreateSubnet \/ AwaitSubnet
    \/ GetSubnet \/ CheckGetSubnet
    \/ CreateAvailabilitySet \/ CheckAvailabilitySet
    \/ AwaitStorageAccount
    \/ CallCreateVM1 \/ CheckCreateVM1
    \/ CallCreateVM2 \/ CheckCreateVM2
    \/ CreateVMSendNIC \/ CreateVMAwaitNIC
    \/ CreateVMSendVM \/ CreateVMAwaitVM
    \/ ListResources \/ CheckList
    \/ DeleteResourceGroup \/ AwaitDelete
    \/ MainReturn

Remote == \E c \in Calls : Respond(c)

Next == Workflow \/ Remote \/ ReadInput

Spec == Init /\ [][Next]_vars

\* every issued call is answered, the user answers the prompt, and the
\* workflow runs whenever it can
FairSpec == Spec /\ WF_vars(Workflow) /\ WF_vars(Remote) /\ WF_vars(ReadInput)


(* ---- vocabulary of the properties ---- *)

Count(e) == Cardinality({i \in 1..Len(trace) : trace[i] = e})
Issued(c) == Count(<<"issue", c>>) > 0
Awaited(c) == Count(<<"await", c>>) > 0
\* the workflow has received the successful result of c
Acked(c) == Awaited(c) /\ status[c] = "ok"
IssuedSet == {c \in Calls : status[c] # "unissued"}
\* issued, result not yet received by the workflow
Outstanding == {c \in Calls : Issued(c) /\ ~Awaited(c)}
IsPrefix(s, t) == Len(s) <= Len(t) /\ \A i \in 1..Len(s) : s[i] = t[i]
Exited == pc = "exited"
NoFailure == \A c \in Calls : status[c] # "fail"

\* the call whose result the workflow is blocked on, if any
WaitingOn ==
    CASE pc = "check_group" -> cGroup
      [] pc = "await_pip" -> cPIP
      [] pc = "await_lb" -> cLB
      [] pc = "await_vnet" -> cVNet
      [] pc = "await_subnet" -> cSubnet
      [] pc = "check_get_subnet" -> cGetSubnet
      [] pc = "check_availset" -> cAvailSet
      [] pc = "await_storage" -> cStorage
      [] pc = "createVM_await_nic" -> cNIC(frame.vmName)
      [] pc = "createVM_await_vm" -> cVM(frame.vmName)
      [] pc = "check_list" -> cList
      [] pc = "await_delete" -> cDelete
      [] OTHER -> "none"

\* the calls, the storage await and the prompt, in the order of the trace
Steps == SelectSeq(trace, LAMBDA e : e[1] = "issue" \/ e[1] = "scan"
                                     \/ e = <<"await", cStorage>>)

ExpectedSteps ==
    << <<"issue", cGroup>>, <<"issue", cStorage>>, <<"issue", cPIP>>,
       <<"issue", cLB>>, <<"issue", cVNet>>, <<"issue", cSubnet>>,
       <<"issue", cGetSubnet>>, <<"issue", cAvailSet>>, <<"await", cStorage>>,
       <<"issue", cNIC1>>, <<"issue", cVM1>>, <<"issue", cNIC2>>,
       <<"issue", cVM2>>, <<"issue", cList>>, <<"scan", "stdin">>,
       <<"issue", cDelete>> >>

(* ---- C1 ---- *)

\* C1: while no remote call has failed, the calls issued so far (with the
\* storage await and the prompt) are an initial part of the fixed order
\* group, storage, public IP, load balancer, virtual network, subnet, get
\* subnet, availability set, (await storage), NIC 1, VM 1, NIC 2, VM 2, list,
\* (prompt), delete; a run that ends with status 0 issued all of them, each
\* once; NIC 2 is issued only after VM 1 was acknowledged.
C1_CallOrder ==
    /\ NoFailure => IsPrefix(Steps, ExpectedSteps)
    /\ (NoFailure /\ exitStatus = {0}) => Steps = ExpectedSteps
    /\ \A c \in Calls : Count(<<"issue", c>>) <= 1
    /\ Issued(cNIC2) => Acked(cVM1)

C1_Witness == exitStatus = {0} /\ NoFailure /\ Steps = ExpectedSteps

(* ---- C2 ---- *)

\* C2: a request that references another resource is issued only after the
\* creation of that resource was acknowledged as successful, and carries the
\* identifier the service delivered: load balancer -> public IP; NIC ->
\* subnet, backend pool, NAT rule; VM -> NIC, availability set, storage
\* account.  The load balancer's references to its own children are
\* predicted identifiers and are excepted.
C2_ReferencesAcked ==
    /\ Issued(cLB) =>
          /\ Acked(cPIP)
          /\ req[cLB].FrontendIPConfigurations[1].PublicIPAddress = resp[cPIP]
    /\ \A v \in {vmName1, vmName2} :
          /\ Issued(cNIC(v)) =>
                /\ Acked(cSubnet) /\ Acked(cGetSubnet) /\ Acked(cLB)
                /\ \A k \in 1..Len(req[cNIC(v)].IPConfigurations) :
                      LET ipc == req[cNIC(v)].IPConfigurations[k]
                      IN  /\ ipc.Subnet = resp[cGetSubnet].ID
                          /\ \A j \in 1..Len(ipc.LoadBalancerBackendAddressPools) :
                                \E m \in 1..Len(resp[cLB].BackendAddressPools) :
                                    ipc.LoadBalancerBackendAddressPools[j]
                                        = resp[cLB].BackendAddressPools[m].ID
                          /\ \A j \in 1..Len(ipc.LoadBalancerInboundNatRules) :
                                \E m \in 1..Len(resp[cLB].InboundNatRules) :
                                    ipc.LoadBalancerInboundNatRules[j]
                                        = resp[cLB].InboundNatRules[m].ID
          /\ Issued(cVM(v)) =>
                /\ Acked(cNIC(v)) /\ Acked(cAvailSet) /\ Acked(cStorage)
                /\ \A k \in 1..Len(req[cVM(v)].NetworkInterfaces) :
                      req[cVM(v)].NetworkInterfaces[k].ID = resp[cNIC(v)].ID
                /\ req[cVM(v)].AvailabilitySet = resp[cAvailSet].ID
                /\ req[cVM(v)].OsDisk.Vhd[2] = req[cStorage].Name

C2_Witness == Issued(cVM2) /\ Issued(cVM1) /\ Issued(cLB)

(* ---- C3 ---- *)

\* C3 as stated: at most one call is outstanding, the storage-account
\* creation included.
C3_AtMostOneOutstanding == Cardinality(Outstanding) <= 1

\* C3 amended: apart from the storage-account creation at most one call is
\* outstanding; the storage-account creation stays outstanding from its issue
\* until it is awaited after the availability set, so at most two calls are
\* outstanding, and the second one is then one of public IP, load balancer,
\* virtual network, subnet, get subnet, availability set.
C3_OneOutstandingBesidesStorage ==
    /\ Cardinality(Outstanding \ {cStorage}) <= 1
    /\ Cardinality(Outstanding) <= 2
    /\ Cardinality(Outstanding) = 2 =>
          /\ cStorage \in Outstanding
          /\ Outstanding \subseteq
                {cStorage, cPIP, cLB, cVNet, cSubnet, cGetSubnet, cAvailSet}
    /\ (Issued(cStorage) /\ ~Exited /\ ~Awaited(cStorage)) => ~Issued(cNIC1)

C3_Witness == Outstanding = {cStorage, cAvailSet} /\ status[cStorage] = "pending"

(* ---- C4 ---- *)

\* C4 as stated: once any call has failed, the storage-account creation
\* included, no further call is issued.
C4_NoCallAfterAnyFailure ==
    [][(\E c \in Calls : status[c] = "fail") => IssuedSet' = IssuedSet]_vars

\* C4 amended: once a call other than the storage-account creation has
\* failed, no further call is issued; a failure of the storage-account
\* creation is acted on when its result is awaited after the availability
\* set: until then only public IP, load balancer, virtual network, subnet,
\* get subnet and availability set are issued, and none after it.
C4_NoCallAfterNoticedFailure ==
    [][/\ ((\E c \in Calls \ {cStorage} : status[c] = "fail")
             \/ (status[cStorage] = "fail" /\ Awaited(cStorage))
             \/ Exited)
          => IssuedSet' = IssuedSet
       /\ status[cStorage] = "fail"
          => IssuedSet' \ IssuedSet \subseteq
                {cPIP, cLB, cVNet, cSubnet, cGetSubnet, cAvailSet}]_vars

C4_Witness ==
    /\ status[cStorage] = "fail" /\ Awaited(cStorage) /\ exitStatus = {1}
    /\ Issued(cAvailSet)

(* ---- C5 ---- *)

\* C5: if the public-IP creation fails, the load balancer creation is never
\* issued, and the workflow's next step ends the run with status 1.
C5_PublicIPFailure ==
    /\ [](status[cPIP] = "fail" =>
            /\ ~Issued(cLB)
            /\ exitStatus # {0}
            /\ exitStatus = {} => pc = "await_pip")
    /\ [][(status[cPIP] = "fail" /\ pc' # pc) => exitStatus' = {1}]_vars

C5_Witness == status[cPIP] = "fail" /\ exitStatus = {1} /\ ~Issued(cLB)

(* ---- C6 ---- *)

\* C6: if the NIC creation of VM 1 fails, the VM creation of VM 1 is never
\* issued: createVM returns the error and main exits with status 1.  The
\* subnet and the availability set were created successfully and no delete
\* is issued.
C6_NIC1Failure ==
    status[cNIC1] = "fail" =>
        /\ ~Issued(cVM1)
        /\ Acked(cSubnet) /\ Acked(cAvailSet)
        /\ ~Issued(cDelete)
        /\ pc \in {"createVM_await_nic", "check_createVM1", "exited"}
        /\ pc = "check_createVM1" => err # "nil"
        /\ Exited => exitStatus = {1}

C6_Witness ==
    /\ status[cNIC1] = "fail" /\ exitStatus = {1}
    /\ failMessage = "createVM failed"

(* ---- C7 ---- *)

\* C7 as stated: the delete is issued at most once, only after every
\* creation step and the listing succeeded and the prompt returned, and on
\* every run in which some step fails (whichever step) it is never issued.
C7_DeleteNeverWithAnyFailure ==
    /\ Count(<<"issue", cDelete>>) <= 1
    /\ Issued(cDelete) =>
          /\ \A c \in Calls \ {cDelete} : Acked(c)
          /\ input
    /\ (\E c \in Calls : status[c] = "fail") => ~Issued(cDelete)

\* C7 amended: the delete is issued at most once, and only after every
\* creation step and the listing were acknowledged as successful and the
\* prompt has returned; when a step before the deletion has failed (init
\* included), the delete is never issued.  The deletion itself may fail, and
\* then it has been issued.
C7_DeleteOnlyAtEnd ==
    /\ Count(<<"issue", cDelete>>) <= 1
    /\ Issued(cDelete) =>
          /\ \A c \in Calls \ {cDelete} : Acked(c)
          /\ input
          /\ Count(<<"scan", "stdin">>) = 1
    /\ (\E c \in Calls \ {cDelete} : status[c] = "fail") => ~Issued(cDelete)
    /\ (Exited /\ ~Awaited(cList)) => ~Issued(cDelete)
    /\ status[cDelete] = "fail" => (Issued(cDelete) /\ exitStatus # {0})

C7_Witness == Issued(cDelete) /\ input /\ status[cDelete] = "fail" /\ Exited

(* ---- C8 ---- *)

\* C8: the exit status is 0 exactly when every step succeeded, the deletion
\* included, and 1 when a step failed (a top-level call, a sub-step of
\* createVM, the listing, the deletion, or init); no run ends with status 0
\* after a failed call.
C8_ExitStatus ==
    /\ Exited <=> exitStatus # {}
    /\ exitStatus \subseteq {0, 1}
    /\ exitStatus = {0} <=> (Exited /\ \A c \in Calls : Acked(c))
    /\ exitStatus = {1} <=>
          /\ Exited
          /\ \/ \E c \in Calls : Awaited(c) /\ status[c] = "fail"
             \/ failMessage \in {"GetAuthorizer failed", "Missing environment variable"}
    /\ exitStatus = {0} => NoFailure

C8_Witness == exitStatus = {0} /\ Acked(cDelete) /\ failMessage = ""

(* ---- C9 ---- *)

\* the NIC definition C9 describes, for NAT-rule index i (0 or 1)
NICShape(n, subnetID, lbObj, i) ==
    /\ Len(n.IPConfigurations) = 1
    /\ n.IPConfigurations[1].Subnet = subnetID
    /\ n.IPConfigurations[1].LoadBalancerBackendAddressPools
          = << lbObj.BackendAddressPools[1].ID >>
    /\ n.IPConfigurations[1].LoadBalancerInboundNatRules
          = << lbObj.InboundNatRules[i + 1].ID >>
    /\ n.IPConfigurations[1].LoadBalancerInboundNatRules[1]
          # lbObj.InboundNatRules[(1 - i) + 1].ID

\* C9: for a load balancer with a backend pool and at least two NAT rules,
\* the NIC built for index i has exactly one IP configuration, referencing
\* the subnet, backend pool 0 and NAT rule i (not the other one); the NIC of
\* VM 1 uses NAT rule 0 and the NIC of VM 2 NAT rule 1, so the two NICs share
\* the backend pool and not the NAT rule.
C9_NICReferences ==
    /\ Issued(cNIC1) => NICShape(req[cNIC1], resp[cGetSubnet].ID, resp[cLB], 0)
    /\ Issued(cNIC2) => NICShape(req[cNIC2], resp[cGetSubnet].ID, resp[cLB], 1)
    /\ (Issued(cNIC1) /\ Issued(cNIC2)) =>
          /\ req[cNIC1].IPConfigurations[1].LoadBalancerBackendAddressPools
                = req[cNIC2].IPConfigurations[1].LoadBalancerBackendAddressPools
          /\ req[cNIC1].IPConfigurations[1].LoadBalancerInboundNatRules[1]
                # req[cNIC2].IPConfigurations[1].LoadBalancerInboundNatRules[1]

C9_Witness ==
    /\ Issued(cNIC1) /\ Issued(cNIC2)
    /\ Len(resp[cLB].InboundNatRules) > 2
    /\ Len(resp[cLB].BackendAddressPools) > 1

(* ---- C10 ---- *)

\* C10: when every issued call is answered and the prompt returns, the run
\* ends, with status 0 after the delete completed or with status 1; the
\* workflow only waits for results of calls it has issued, and it awaits the
\* storage-account result at most once.
C10_Terminates ==
    /\ [](/\ WaitingOn # "none" => status[WaitingOn] # "unissued"
          /\ \A c \in Calls : Awaited(c) => Issued(c)
          /\ Count(<<"await", cStorage>>) <= 1
          /\ exitStatus = {0} => Acked(cDelete))
    /\ <>(exitStatus = {0} \/ exitStatus = {1})

C10_Witness == Exited /\ Count(<<"await", cStorage>>) = 1 /\ status[cStorage] = "ok"

====
